---- MODULE Spec2Model ----
(***************************************************************************)
(* kbtune: notes, intervals and a twelve-slot keyboard temperament.        *)
(*                                                                         *)
(* Numbers.  Every frequency and ratio the modelled operations produce     *)
(* with cents = 0 is a positive rational whose prime factors lie in        *)
(* {2, 3, 5, 7}.  Such a number is held exactly as the vector of its four  *)
(* prime exponents <<e2, e3, e5, e7>>, so that products and quotients are  *)
(* exact however long a walk around the circle of fifths gets.  Floating   *)
(* point rounding is not modelled.  A difference of two such numbers is    *)
(* held as the pair [plus, minus] standing for plus - minus.               *)
(***************************************************************************)
EXTENDS Integers, Sequences, FiniteSets

VARIABLES
    note1,        \* first Note argument of the scenario
    note2,        \* second Note argument of the scenario
    n,            \* the Note an Interval is added to
    freq1,        \* frequency argument used with note1
    freq2,        \* frequency argument used with note2
    interval,     \* the Interval built from (note1, note2), or NoInterval
    frequencies,  \* Temperament.frequencies: 12 slots, None when untuned
    pc,           \* "idle" | "loop" (inside tune_fifths_up) | "done"
    note,         \* tune_fifths_up's local variable
    steps,        \* tune_fifth_up applications made by the running walk
    nops,         \* mutating Temperament calls made so far
    last,         \* the last call: [op, note, freq]
    ret,          \* what the last call returned: [kind, val]
    report        \* rows produced by Temperament.__str__

vars == <<note1, note2, n, freq1, freq2, interval, frequencies, pc, note,
          steps, nops, last, ret, report>>

----------------------------------------------------------------------------
(* Bounds of the model.                                                    *)

MaxAccidental == 2
MaxOps == 2
MaxSteps == 100

----------------------------------------------------------------------------
(* Exact arithmetic on 7-smooth positive rationals.                        *)

RECURSIVE Exponent(_, _)
Exponent(p, k) == IF k % p = 0 THEN 1 + Exponent(p, k \div p) ELSE 0

RECURSIVE Pow(_, _)
Pow(b, e) == IF e = 0 THEN 1 ELSE b * Pow(b, e - 1)

\* the number k (a positive 7-smooth integer)
Num(k) == <<Exponent(2, k), Exponent(3, k), Exponent(5, k), Exponent(7, k)>>

Mul(x, y) == <<x[1] + y[1], x[2] + y[2], x[3] + y[3], x[4] + y[4]>>

Div(x, y) == <<x[1] - y[1], x[2] - y[2], x[3] - y[3], x[4] - y[4]>>

\* x < y, decided on the integers numerator and denominator of x / y
Less(x, y) ==
    LET q == Div(x, y)
        Pos(e) == IF e > 0 THEN e ELSE 0
        num == Pow(2, Pos(q[1])) * Pow(3, Pos(q[2]))
               * Pow(5, Pos(q[3])) * Pow(7, Pos(q[4]))
        den == Pow(2, Pos(-q[1])) * Pow(3, Pos(-q[2]))
               * Pow(5, Pos(-q[3])) * Pow(7, Pos(-q[4]))
    IN  num < den

\* plus - minus, and its negation
Diff(plus, minus) == [plus |-> plus, minus |-> minus]

Neg(d) == [plus |-> d.minus, minus |-> d.plus]

IsZero(d) == d.plus = d.minus

IsNegative(d) == Less(d.plus, d.minus)

----------------------------------------------------------------------------
(* Note                                                                    *)

POSITIONS == [k \in 0..6 |->
    CASE k = 0 -> 0 [] k = 1 -> 2 [] k = 2 -> 4 [] k = 3 -> 5
      [] k = 4 -> 7 [] k = 5 -> 9 [] k = 6 -> 11]

\* Note(key, accidental) for an integer key
Note(key, accidental) == [key |-> key % 7, accidental |-> accidental]

position(nt) == (POSITIONS[nt.key] + nt.accidental) % 12

NoteEq(x, y) == x.key = y.key /\ x.accidental = y.accidental

NoteNe(x, y) == ~NoteEq(x, y)

NoteLt(x, y) ==
    IF x.key < y.key THEN TRUE
    ELSE IF x.key = y.key THEN x.accidental < y.accidental
    ELSE FALSE

\* total_ordering derives __gt__ from __lt__
NoteGt(x, y) == NoteLt(y, x)

\* the notes drawn as inputs
Notes == {Note(k, acc) : k \in 0..6, acc \in -MaxAccidental..MaxAccidental}

----------------------------------------------------------------------------
(* Interval                                                                *)

\* NewInterval as it would be if the descending branch kept the sign of the
\* semitone difference
NewInterval_KeepSign(x, y) ==
    LET key_distance == y.key - x.key
        position_distance == position(y) - position(x)
    IN  IF key_distance > 0
        THEN [key_distance |-> key_distance,
              position_distance |-> position_distance,
              up |-> TRUE]
        ELSE IF key_distance < 0
        THEN [key_distance |-> -key_distance,
              position_distance |-> position_distance,
              up |-> FALSE]
        ELSE [key_distance |-> 0,
              position_distance |->
                  IF position_distance >= 0 THEN position_distance
                  ELSE -position_distance,
              up |-> (position_distance >= 0)]

NewInterval(x, y) ==
    LET key_distance == y.key - x.key
        position_distance == position(y) - position(x)
    IN  IF key_distance > 0
        THEN [key_distance |-> key_distance,
              position_distance |-> position_distance,
              up |-> TRUE]
        ELSE IF key_distance < 0
        THEN [key_distance |-> -key_distance,
              position_distance |-> -position_distance,
              up |-> FALSE]
        ELSE [key_distance |-> 0,
              position_distance |->
                  IF position_distance >= 0 THEN position_distance
                  ELSE -position_distance,
              up |-> (position_distance >= 0)]

\* the quotient p / q
Ratio(p, q) == Div(Num(p), Num(q))

ValueError == [kind |-> "ValueError", val |-> <<>>]

Value(kind, v) == [kind |-> kind, val |-> v]

get_ratio(iv) ==
    LET kd == iv.key_distance
        pd == iv.position_distance
        ratio ==
            IF kd = 0 /\ pd = 0 THEN Num(1)
            ELSE IF kd = 1 /\ pd = 2 THEN Ratio(8, 7)
            ELSE IF kd = 2 /\ pd = 3 THEN Ratio(6, 5)
            ELSE IF kd = 2 /\ pd = 4 THEN Ratio(5, 4)
            ELSE IF kd = 3 /\ pd = 5 THEN Ratio(4, 3)
            ELSE IF kd = 3 /\ pd = 6 THEN Ratio(10, 7)
            ELSE IF kd = 4 /\ pd = 6 THEN Ratio(7, 5)
            ELSE IF kd = 4 /\ pd = 7 THEN Ratio(3, 2)
            ELSE IF kd = 5 /\ pd = 8 THEN Ratio(8, 5)
            ELSE IF kd = 5 /\ pd = 9 THEN Ratio(10, 6)
            ELSE IF kd = 5 /\ pd = 9 THEN Ratio(7, 4)
            ELSE <<>>
    IN  IF ratio = <<>> THEN ValueError
        ELSE IF iv.up THEN Value("ratio", ratio)
        ELSE Value("ratio", Div(Num(1), ratio))

\* Note.__add__ as it would be if the interval's direction were ignored
NoteAdd_Unsigned(nt, iv) ==
    LET new_note == Note(nt.key + iv.key_distance, 0)
        accidental ==
            ((position(nt) + iv.position_distance) % 12) - position(new_note)
    IN  [key |-> new_note.key, accidental |-> accidental]

\* Note.__add__ as it would be if the target position were not reduced
\* modulo 12
NoteAdd_NoWrap(nt, iv) ==
    LET direction == IF iv.up THEN 1 ELSE -1
        new_note == Note(nt.key + iv.key_distance * direction, 0)
        accidental ==
            (position(nt) + iv.position_distance * direction)
                - position(new_note)
    IN  [key |-> new_note.key, accidental |-> accidental]

\* Note.__add__
NoteAdd(nt, iv) ==
    LET direction == IF iv.up THEN 1 ELSE -1
        new_note == Note(nt.key + iv.key_distance * direction, 0)
        accidental ==
            ((position(nt) + iv.position_distance * direction) % 12)
                - position(new_note)
    IN  [key |-> new_note.key, accidental |-> accidental]

----------------------------------------------------------------------------
(* Temperament                                                             *)

None == <<>>

NOTES == <<Note(0, 0), Note(0, 1), Note(1, 0), Note(2, -1), Note(2, 0),
           Note(3, 0), Note(3, 1), Note(4, 0), Note(4, 1), Note(5, 0),
           Note(6, -1), Note(6, 0)>>

KeyboardNotes == {NOTES[i] : i \in 1..12}

PERFECT_FIFTH == NewInterval(Note(0, 0), Note(4, 0))

\* Temperament.__init__
NewTemperament == [p \in 0..11 |-> None]

is_tuned(fr, p) == fr[p] # None

\* set_frequency as it would be if the slot were found from the key alone
set_frequency_ByKey(fr, nt, freq) == [fr EXCEPT ![POSITIONS[nt.key]] = freq]

set_frequency(fr, nt, freq) == [fr EXCEPT ![position(nt)] = freq]

get_frequency(fr, nt) == fr[position(nt)]

\* 2 ** (cents / 1200), exact for the whole octaves the model uses
cents_to_ratio(cents) == <<cents \div 1200, 0, 0, 0>>

\* the default of the cents parameter
DefaultCents == 0

\* get_dev_bps as it would be if descending intervals were not reduced to the
\* ascending case
get_dev_bps_NoReduce(fr, x, y) ==
    LET iv == NewInterval(x, y)
        kd == iv.key_distance
        pd == iv.position_distance
        f1 == get_frequency(fr, x)
        f2 == get_frequency(fr, y)
        Beat(k2, k1) == Value("dev", Diff(Mul(Num(k2), f2), Mul(Num(k1), f1)))
    IN  IF kd = 0 /\ pd = 0 THEN Beat(1, 1)
        ELSE IF kd = 1 /\ pd = 2 THEN Beat(7, 8)
        ELSE IF kd = 2 /\ pd = 3 THEN Beat(5, 6)
        ELSE IF kd = 2 /\ pd = 4 THEN Beat(4, 5)
        ELSE IF kd = 3 /\ pd = 5 THEN Beat(3, 4)
        ELSE IF kd = 3 /\ pd = 6 THEN Beat(7, 10)
        ELSE IF kd = 4 /\ pd = 6 THEN Beat(5, 7)
        ELSE IF kd = 4 /\ pd = 7 THEN Beat(2, 3)
        ELSE IF kd = 5 /\ pd = 8 THEN Beat(5, 8)
        ELSE IF kd = 5 /\ pd = 9 THEN Beat(6, 10)
        ELSE ValueError

RECURSIVE get_dev_bps(_, _, _)
get_dev_bps(fr, x, y) ==
    LET iv == NewInterval(x, y)
        kd == iv.key_distance
        pd == iv.position_distance
        f1 == get_frequency(fr, x)
        f2 == get_frequency(fr, y)
        Beat(k2, k1) == Value("dev", Diff(Mul(Num(k2), f2), Mul(Num(k1), f1)))
    IN  IF ~iv.up
        THEN LET r == get_dev_bps(fr, y, x)
             IN  IF r.kind = "dev" THEN Value("dev", Neg(r.val)) ELSE r
        ELSE IF kd = 0 /\ pd = 0 THEN Beat(1, 1)
        ELSE IF kd = 1 /\ pd = 2 THEN Beat(7, 8)
        ELSE IF kd = 2 /\ pd = 3 THEN Beat(5, 6)
        ELSE IF kd = 2 /\ pd = 4 THEN Beat(4, 5)
        ELSE IF kd = 3 /\ pd = 5 THEN Beat(3, 4)
        ELSE IF kd = 3 /\ pd = 6 THEN Beat(7, 10)
        ELSE IF kd = 4 /\ pd = 6 THEN Beat(5, 7)
        ELSE IF kd = 4 /\ pd = 7 THEN Beat(2, 3)
        ELSE IF kd = 5 /\ pd = 8 THEN Beat(5, 8)
        ELSE IF kd = 5 /\ pd = 9 THEN Beat(6, 10)
        ELSE IF kd = 5 /\ pd = 9 THEN Beat(4, 7)
        ELSE ValueError

\* next_note as it would be if a major third were added instead of the fifth
next_note_Third(nt) == NoteAdd(nt, NewInterval(Note(0, 0), Note(2, 0)))

\* the note tune_fifth_up tunes and returns
next_note(nt) == NoteAdd(nt, PERFECT_FIFTH)

\* tune_fifth_up as it would be if the fifth were never folded back into the
\* octave
tune_fifth_up_NoFold(fr, nt, cents) ==
    LET ratio == cents_to_ratio(cents)
    IN  set_frequency(fr, next_note(nt),
            Mul(get_frequency(fr, nt), Div(Mul(ratio, Num(3)), Num(2))))

\* the frequency table tune_fifth_up leaves
tune_fifth_up(fr, nt, cents) ==
    LET ratio == cents_to_ratio(cents)
    IN  IF NoteGt(next_note(nt), nt)
        THEN set_frequency(fr, next_note(nt),
                 Mul(get_frequency(fr, nt), Div(Mul(ratio, Num(3)), Num(2))))
        ELSE set_frequency(fr, next_note(nt),
                 Div(get_frequency(fr, nt), Div(Mul(ratio, Num(4)), Num(3))))

\* the rows of Temperament.__str__: each fifth of the circle from A, with
\* its get_dev_bpm
RECURSIVE StrRows(_, _)
StrRows(fr, nt) ==
    LET nxt == NoteAdd(nt, NewInterval(Note(0, 0), Note(4, 0)))
        bps == get_dev_bps(fr, nt, nxt)
        row == [note |-> nt, next_note |-> nxt,
                dev_bpm |-> IF bps.kind = "dev"
                            THEN Value("dev", Diff(Mul(Num(60), bps.val.plus),
                                                   Mul(Num(60), bps.val.minus)))
                            ELSE bps]
        follow == NOTES[position(nxt) + 1]
    IN  IF NoteEq(follow, Note(5, 0)) THEN <<row>>
        ELSE <<row>> \o StrRows(fr, follow)

----------------------------------------------------------------------------
(* State machine                                                           *)

NoInterval == [key_distance |-> -1, position_distance |-> 0, up |-> FALSE]

NoCall == [op |-> "new", note |-> Note(0, 0), freq |-> None]

Call(op, nt, freq) == [op |-> op, note |-> nt, freq |-> freq]

\* frequencies handed to set_frequency
FreqInputs == {Num(4), Num(5), Num(6), Num(7), Num(8), Num(10)}

\* frequencies handed to set_frequency when the calls come in any order
FewFreqInputs == {Num(4), Num(5), Num(6)}

\* a new Temperament, no call made yet
Fresh ==
    /\ interval = NoInterval
    /\ frequencies = NewTemperament
    /\ pc = "idle"
    /\ note = Note(0, 0)
    /\ steps = 0
    /\ nops = 0
    /\ last = NoCall
    /\ ret = Value("None", None)
    /\ report = <<>>

args == <<note1, note2, n, freq1, freq2>>

\* Interval(note1, note2)
MakeInterval ==
    /\ interval = NoInterval
    /\ interval' = NewInterval(note1, note2)
    /\ last' = Call("Interval", note1, None)
    /\ UNCHANGED <<args, frequencies, pc, note, steps, nops, ret, report>>

\* n + interval
AddInterval ==
    /\ interval # NoInterval
    /\ ret' = Value("note", NoteAdd(n, interval))
    /\ last' = Call("add", n, None)
    /\ UNCHANGED <<args, interval, frequencies, pc, note, steps, nops, report>>

\* interval.get_ratio()
GetRatio ==
    /\ interval # NoInterval
    /\ ret' = get_ratio(interval)
    /\ last' = Call("get_ratio", note1, None)
    /\ UNCHANGED <<args, interval, frequencies, pc, note, steps, nops, report>>

\* temp.set_frequency(nt, freq)
SetFrequency(nt, freq) ==
    /\ pc = "idle"
    /\ nops < MaxOps
    /\ frequencies' = set_frequency(frequencies, nt, freq)
    /\ nops' = nops + 1
    /\ last' = Call("set_frequency", nt, freq)
    /\ ret' = Value("None", None)
    /\ UNCHANGED <<args, interval, pc, note, steps, report>>

\* temp.tune_fifth_up(nt); on an untuned slot the product raises TypeError
\* before anything is written
TuneFifthUp(nt) ==
    /\ pc = "idle"
    /\ nops < MaxOps
    /\ is_tuned(frequencies, position(nt))
    /\ frequencies' = tune_fifth_up(frequencies, nt, DefaultCents)
    /\ nops' = nops + 1
    /\ last' = Call("tune_fifth_up", nt, None)
    /\ ret' = Value("note", next_note(nt))
    /\ UNCHANGED <<args, interval, pc, note, steps, report>>

\* temp.get_dev_bps(x, y) on two tuned notes
GetDevBps(x, y) ==
    /\ pc = "idle"
    /\ is_tuned(frequencies, position(x))
    /\ is_tuned(frequencies, position(y))
    /\ ret' = get_dev_bps(frequencies, x, y)
    /\ last' = Call("get_dev_bps", x, None)
    /\ UNCHANGED <<args, interval, frequencies, pc, note, steps, nops, report>>

\* temp.tune_fifths_up(note1, note2) is entered: note = note1
TuneFifthsUp ==
    /\ pc = "idle"
    /\ is_tuned(frequencies, position(note1))
    /\ pc' = "loop"
    /\ note' = note1
    /\ steps' = 0
    /\ last' = Call("tune_fifths_up", note1, None)
    /\ UNCHANGED <<args, interval, frequencies, nops, ret, report>>

\* one turn of "while note != note2: note = self.tune_fifth_up(note, cents)"
LoopStep ==
    /\ pc = "loop"
    /\ NoteNe(note, note2)
    /\ steps < MaxSteps
    /\ is_tuned(frequencies, position(note))
    /\ frequencies' = tune_fifth_up(frequencies, note, DefaultCents)
    /\ note' = next_note(note)
    /\ steps' = steps + 1
    /\ UNCHANGED <<args, interval, pc, nops, last, ret, report>>

\* the loop test fails and tune_fifths_up returns
LoopExit ==
    /\ pc = "loop"
    /\ ~NoteNe(note, note2)
    /\ pc' = "done"
    /\ ret' = Value("None", None)
    /\ UNCHANGED <<args, interval, frequencies, note, steps, nops, last, report>>

\* str(temp) on a fully tuned temperament
Str ==
    /\ pc = "done"
    /\ report = <<>>
    /\ \A p \in 0..11 : is_tuned(frequencies, p)
    /\ report' = StrRows(frequencies, Note(5, 0))
    /\ last' = Call("str", Note(5, 0), None)
    /\ UNCHANGED <<args, interval, frequencies, pc, note, steps, nops, ret>>

----------------------------------------------------------------------------
(* Specifications                                                          *)

\* Temperament calls in any order, on any notes
Init ==
    /\ note1 = Note(0, 0) /\ note2 = Note(0, 0) /\ n = Note(0, 0)
    /\ freq1 = None /\ freq2 = None
    /\ Fresh

Next ==
    \/ \E nt \in Notes, freq \in FewFreqInputs : SetFrequency(nt, freq)
    \/ \E nt \in Notes : TuneFifthUp(nt)

Spec == Init /\ [][Next]_vars

\* the pure Note and Interval operations on drawn arguments
InitNote ==
    /\ note1 \in Notes /\ note2 \in Notes /\ n \in Notes
    /\ freq1 = None /\ freq2 = None
    /\ Fresh

NextNote == MakeInterval \/ AddInterval \/ GetRatio

SpecNote == InitNote /\ [][NextNote]_vars

\* get_dev_bps between two notes tuned to drawn frequencies
InitDev ==
    /\ note1 \in Notes /\ note2 \in Notes /\ n = Note(0, 0)
    /\ freq1 \in FreqInputs /\ freq2 \in FreqInputs
    /\ Fresh

NextDev ==
    \/ SetFrequency(note1, freq1)
    \/ SetFrequency(note2, freq2)
    \/ GetDevBps(note1, note2)

SpecDev == InitDev /\ [][NextDev]_vars

\* tune_fifths_up between two keyboard notes, from one tuned note
InitWalk ==
    /\ note1 \in KeyboardNotes /\ note2 \in KeyboardNotes /\ n = Note(0, 0)
    /\ freq1 \in FreqInputs /\ freq2 = None
    /\ Fresh

NextWalk ==
    \/ SetFrequency(note1, freq1)
    \/ TuneFifthsUp
    \/ LoopStep
    \/ LoopExit
    \/ Str

SpecWalk == InitWalk /\ [][NextWalk]_vars

\* the same walk, run as sequential code runs: a loop turn or the return
\* that can be taken is taken
SpecWalkFair == SpecWalk /\ WF_vars(LoopStep) /\ WF_vars(LoopExit)

----------------------------------------------------------------------------
(* Claims about Note and Interval (SpecNote)                               *)

\* C1: n + i is a Note whose key is (n.key + i.key_distance * d) mod 7 and
\* whose position is (n.position + i.position_distance * d) mod 12, where
\* d = +1 if i.up else -1.
C1_AddKeyAndPosition ==
    last.op = "add" =>
        LET d == IF interval.up THEN 1 ELSE -1
        IN  /\ ret.kind = "note"
            /\ ret.val.key = (n.key + interval.key_distance * d) % 7
            /\ position(ret.val)
                   = (position(n) + interval.position_distance * d) % 12

\* C1 witness: the doctest C + Interval(G, E) = A, a sum with a descending
\* interval, has been computed.
C1_Witness ==
    /\ last.op = "add"
    /\ n = Note(0, 0) /\ note1 = Note(4, 0) /\ note2 = Note(2, 0)
    /\ ~interval.up
    /\ ret.val = Note(5, 0)

\* C2: the Interval built from any ordered pair of Notes has
\* key_distance >= 0 and position_distance >= 0.
C2_DistancesNonNegative ==
    interval # NoInterval =>
        /\ interval.key_distance >= 0
        /\ interval.position_distance >= 0

\* C3: for Notes a, b with a.position != b.position, Interval(a, b) and
\* Interval(b, a) have opposite up and the same key_distance and
\* position_distance.
C3_Antisymmetric ==
    (interval # NoInterval /\ position(note1) # position(note2)) =>
        LET back == NewInterval(note2, note1)
        IN  /\ back.up # interval.up
            /\ back.key_distance = interval.key_distance
            /\ back.position_distance = interval.position_distance

\* C3 witness: an interval within one key (the tie-break on the semitone
\* difference) that descends.
C3_Witness ==
    /\ interval # NoInterval
    /\ position(note1) # position(note2)
    /\ interval.key_distance = 0
    /\ ~interval.up

\* C4: get_ratio returns the tabulated just ratio of each of the eleven
\* natural intervals (the minor seventh (6, 10) -> 7/4 among them) when the
\* interval ascends, its reciprocal when it descends, and raises the
\* not-a-natural-interval error for every other pair.
C4_RatioTable ==
    last.op = "get_ratio" =>
        LET kd == interval.key_distance
            pd == interval.position_distance
            table ==
                CASE kd = 0 /\ pd = 0 -> Ratio(1, 1)
                  [] kd = 1 /\ pd = 2 -> Ratio(8, 7)
                  [] kd = 2 /\ pd = 3 -> Ratio(6, 5)
                  [] kd = 2 /\ pd = 4 -> Ratio(5, 4)
                  [] kd = 3 /\ pd = 5 -> Ratio(4, 3)
                  [] kd = 3 /\ pd = 6 -> Ratio(10, 7)
                  [] kd = 4 /\ pd = 6 -> Ratio(7, 5)
                  [] kd = 4 /\ pd = 7 -> Ratio(3, 2)
                  [] kd = 5 /\ pd = 8 -> Ratio(8, 5)
                  [] kd = 5 /\ pd = 9 -> Ratio(5, 3)
                  [] kd = 6 /\ pd = 10 -> Ratio(7, 4)
                  [] OTHER -> None
        IN  IF table = None THEN ret.kind = "ValueError"
            ELSE /\ ret.kind = "ratio"
                 /\ ret.val = IF interval.up THEN table
                              ELSE Div(Ratio(1, 1), table)

----------------------------------------------------------------------------
(* Claims about single Temperament calls (Spec)                            *)

\* C5: a new Temperament has is_tuned(p) false for all 12 positions;
\* set_frequency(note, f) makes exactly the slot note.position hold f, so
\* that is_tuned is true there and get_frequency of every note at that
\* position returns f, and leaves the other 11 slots unchanged.
C5_SetFrequencyFrame ==
    /\ \A p \in 0..11 : ~is_tuned(frequencies, p)
    /\ [][last'.op = "set_frequency" =>
            LET nt == last'.note
                f  == last'.freq
            IN  /\ is_tuned(frequencies', position(nt))
                /\ \A e \in Notes :
                       position(e) = position(nt)
                           => get_frequency(frequencies', e) = f
                /\ \A p \in 0..11 :
                       p # position(nt) => frequencies'[p] = frequencies[p]]_vars

\* C5 witness: G# was set while another slot was already tuned, and the
\* enharmonic Ab reads the frequency back.
C5_Witness ==
    /\ last.op = "set_frequency"
    /\ last.note = Note(4, 1)
    /\ get_frequency(frequencies, Note(5, -1)) = last.freq
    /\ \E p \in 0..11 : p # position(last.note) /\ is_tuned(frequencies, p)

\* C6: for a tuned Note n, tune_fifth_up(n) with cents = 0 sets the slot of
\* m = n + perfect fifth to freq(n) * 3/2 when m's position is higher than
\* n's and to freq(n) / (4/3) when it is lower, returns m and changes no
\* other slot.
C6_FifthByPosition ==
    [][last'.op = "tune_fifth_up" =>
          LET nt == last'.note
              m  == NoteAdd(nt, PERFECT_FIFTH)
              f  == get_frequency(frequencies, nt)
          IN  /\ ret'.val = m
              /\ frequencies' =
                     [frequencies EXCEPT ![position(m)] =
                         IF position(m) > position(nt)
                         THEN Mul(f, Ratio(3, 2))
                         ELSE Div(f, Ratio(4, 3))]]_vars

----------------------------------------------------------------------------
(* Claims about get_dev_bps (SpecDev)                                      *)

----------------------------------------------------------------------------
(* Claims about tune_fifths_up (SpecWalk)                                  *)

\* C7: between two keyboard notes, with note1 tuned, tune_fifths_up reaches
\* note2 and terminates after at most 12 applications of tune_fifth_up.
C7_Within12 == steps <= 12

\* C7, amended: between two keyboard notes, with note1 tuned, tune_fifths_up
\* reaches note2 and terminates after at most 83 applications of
\* tune_fifth_up: while note2 is not reached fewer than 83 applications
\* have been made and the next one reads a tuned slot.
C7_Within83 ==
    (pc = "loop" /\ NoteNe(note, note2)) =>
        /\ steps < 7 * 12 - 1
        /\ is_tuned(frequencies, position(note))

\* C7 witness: a walk that returned after 83 applications (C to F).
C7_Witness ==
    /\ pc = "done"
    /\ steps = 7 * 12 - 1
    /\ NoteEq(note, note2)

C9_OneOctaveBand ==
    (pc \in {"loop", "done"} /\ steps >= 1 /\ steps <= 11) =>
        \A p, q \in 0..11 :
            (p < q /\ is_tuned(frequencies, p) /\ is_tuned(frequencies, q)) =>
                /\ Less(frequencies[p], frequencies[q])
                /\ Less(frequencies[q], Mul(Num(2), frequencies[p]))

\* C11: between two keyboard notes, with note1 tuned, tune_fifths_up
\* eventually terminates: the spelled notes produced by repeated
\* tune_fifth_up from note1 visit a note equal (same key and accidental) to
\* note2 after at most 83 steps, and every step reads only an already tuned
\* slot.
C11_Terminates ==
    /\ [](pc = "loop" =>
             /\ steps <= 83
             /\ is_tuned(frequencies, position(note)))
    /\ (pc = "loop") ~>
           (pc = "done" /\ steps <= 83
              /\ note.key = note2.key /\ note.accidental = note2.accidental)

\* C11 witness: a walk that returned on a later turn of the circle than the
\* first, yet before the last possible step.
C11_Witness ==
    /\ pc = "done"
    /\ note1 # note2
    /\ steps > 12 /\ steps < 83
    /\ note.key = note2.key /\ note.accidental = note2.accidental

====
